---- MODULE Spec2Model ----
(***************************************************************************)
(* State-machine model of the go-shop user-service authentication core:    *)
(* the password value object, the JWT token service, the user use case     *)
(* (RegisterUser / Login), the postgres user repository and the connect     *)
(* handlers with their error mapping.                                       *)
(*                                                                          *)
(* Conventions                                                              *)
(*  - A Go string that is a password or a bcrypt hash is a sequence of       *)
(*    strings: a client-supplied text p is <<p>>, and the output of bcrypt  *)
(*    over text t with salt s is <<"$2a$10$", s>> \o t (an ideal one-way    *)
(*    function: the digest is determined by, and determines, salt and       *)
(*    text).                                                                *)
(*  - An identifier (UUID string) is a positive integer, the empty string   *)
(*    is 0.                                                                 *)
(*  - A Go error is a record [kind, code, msg]; kind "nil" is the nil       *)
(*    error and kind "domain" is a value implementing DomainError.          *)
(*  - Time is counted in ticks, TicksPerSecond ticks to the second; the     *)
(*    NumericDate claims of a token are whole seconds.                      *)
(*                                                                          *)
(* Specifications                                                           *)
(*  - Spec: register and login through the handlers.                        *)
(*  - SpecServer: Spec with the procedures whose handler is a stub.         *)
(*  - SpecStore: register and the repository's ChangePassword.              *)
(*  - SpecJWT: the token service, issuing and validating over time.         *)
(*  - SpecSign: the token service when a signature may fail.                *)
(*  - SpecConc: GenerateToken called from several goroutines.               *)
(*  - SpecPassword: the password value object on its own.                   *)
(*  - SpecRace: requests served concurrently over the one connection.       *)
(*  - SpecMain: the process from server start to its exit.                  *)
(***************************************************************************)
EXTENDS Integers, Sequences, FiniteSets, TLC

\* ------------------------------------------------------------------ bounds
TicksPerSecond == 2
MaxTicks == 2
MaxUUID == 4
MaxSalt == 2
MaxIssues == 1
NumCallers == 2
NumRequests == 2
MaxInflight == 2

\* ------------------------------------------------------- program constants
\* time.Duration(30*time.Minute), in seconds
AccessExpiresInSeconds == 1800
\* time.Duration(7*24*time.Hour), in seconds
RefreshExpiresInSeconds == 604800
\* len(p) < 8
MinPasswordLen == 8
\* len(p) < 10 || len(p) > 15
MinPhoneLen == 10
MaxPhoneLen == 15
\* bcrypt: len(password) > 72
MaxBcryptLen == 72
\* context.WithTimeout(context.Background(), 30*time.Second)
ShutdownLimitSeconds == 30

VARIABLES
    j,        \* the JWTService instance: secrets and lifetimes
    now,      \* the wall clock, in ticks
    ticks,    \* how many times the clock has advanced
    uuids,    \* how many UUIDs have been generated (utils.NewUUID, gen_random_uuid)
    salts,    \* how many bcrypt salts have been drawn
    users,    \* the rows of table users
    resp,     \* the last response of a connect handler
    issued,   \* the result of the last direct GenerateToken call
    vres,     \* the last ValidateToken call and its result
    calls,    \* the concurrent GenerateToken calls, one per goroutine
    pw,       \* the last direct use of the password value object
    reqs,     \* the requests served concurrently, one per handler goroutine
    conn,     \* the database connection all requests share
    prog      \* the process: the main goroutine and the serving goroutine

vars == <<j, now, ticks, uuids, salts, users, resp, issued, vres, calls, pw, reqs, conn, prog>>

\* ------------------------------------------------------------------ errors
NilErr == [kind |-> "nil", code |-> "", msg |-> ""]

IsNil(err) == err.kind = "nil"

\* errors.New / fmt.Errorf / a library's sentinel error: no Code() method
PlainErr(kind, msg) == [kind |-> kind, code |-> "", msg |-> msg]

DomainErr(code, msg) == [kind |-> "domain", code |-> code, msg |-> msg]

NewNotFoundError(msg) == DomainErr("NotFound", msg)

NewAlreadyExistsError(msg) == DomainErr("AlreadyExists", msg)

NewUnauthorizedError(msg) == DomainErr("Unauthenticated", msg)

NewInvalidData(msg) == DomainErr("InvalidArgument", msg)

NewInternalError(msg) == DomainErr("Internal", msg)

\* err.(DomainError) succeeds only on the dynamic type itself (no unwrapping)
MapError(err) == IF err.kind = "domain" THEN err.code ELSE "Internal"

\* a *pgconn.PgError carrying SQLSTATE code
PgError(code) == [kind |-> "pg", code |-> code, msg |-> "SQLSTATE"]

isDuplicateKeyErrorNever(err) == FALSE

isDuplicateKeyError(err) == err.kind = "pg" /\ err.code = "23505"

\* --------------------------------------------------------------- passwords
NewPassword(text) == <<text>>

IsBcrypt(s) == Len(s) >= 3 /\ s[1] = "$2a$10$"

\* texts made of two-byte UTF-8 characters only
TwoByteRuneTexts == {"éééé"}

\* utf8.RuneCountInString: the number of characters of a text
RuneCount(s) == Len(s[1])

\* len() of the Go string: its number of bytes
ByteLen(s) ==
    IF IsBcrypt(s) THEN 60
    ELSE IF s[1] \in TwoByteRuneTexts THEN 2 * Len(s[1])
    ELSE Len(s[1])

\* bcrypt.GenerateFromPassword(password, DefaultCost) with the salt it drew
GenerateFromPassword(password, salt) == <<"$2a$10$", salt>> \o password

\* bcrypt.CompareHashAndPassword(hashedPassword, password)
CompareHashAndPassword(hashedPassword, password) ==
    IF ByteLen(hashedPassword) < 59
    THEN PlainErr("bcrypt", "hashedSecret too short to be a bcrypted password")
    ELSE IF ~IsBcrypt(hashedPassword)
    THEN PlainErr("bcrypt", "bcrypt algorithm prefix invalid")
    ELSE IF SubSeq(hashedPassword, 3, Len(hashedPassword)) = password
    THEN NilErr
    ELSE PlainErr("bcrypt", "hashedPassword is not the hash of the given password")

\* func (p Password) Validate() error
PasswordValidate(p) ==
    IF ByteLen(p) < MinPasswordLen
    THEN PlainErr("plain", "password must be at least 8 characters long")
    ELSE NilErr

HashFixedSalt(p, salt) ==
    IF ByteLen(p) > MaxBcryptLen
    THEN [hash |-> <<>>, err |-> PlainErr("bcrypt", "bcrypt: password length exceeds 72 bytes")]
    ELSE [hash |-> GenerateFromPassword(p, "0"), err |-> NilErr]

\* func (p Password) Hash() (string, error): the hash, with the salt drawn;
\* bcrypt refuses a password of more than 72 bytes
Hash(p, salt) ==
    IF ByteLen(p) > MaxBcryptLen
    THEN [hash |-> <<>>, err |-> PlainErr("bcrypt", "bcrypt: password length exceeds 72 bytes")]
    ELSE [hash |-> GenerateFromPassword(p, salt), err |-> NilErr]

\* func (p Password) CompareHash(hash Password) error: the receiver is the text
CompareHash(p, hash) == CompareHashAndPassword(hash, p)

\* ---------------------------------------------------------- email and phone
\* the addresses net/mail.ParseAddress accepts, among the ones used here
WellFormedAddresses == {"a@shop.io", "b@shop.io"}

Emails == WellFormedAddresses \cup {"not-an-address"}

EmailValidate(e) ==
    IF e \in WellFormedAddresses
    THEN NilErr
    ELSE PlainErr("plain", "mail: missing '@' or angle-addr")

Phones == {"", "0123456789", "12345"}

PhoneValidate(p) ==
    IF p = ""
    THEN NilErr
    ELSE IF Len(p) < MinPhoneLen \/ Len(p) > MaxPhoneLen
    THEN PlainErr("plain", "phone number must be between 10 and 15 characters long")
    ELSE NilErr

\* ------------------------------------------------------------- user entity
UserValidatePhoneFirst(u) ==
    IF ~IsNil(PhoneValidate(u.Phone)) THEN PhoneValidate(u.Phone)
    ELSE IF ~IsNil(PasswordValidate(u.Password)) THEN PasswordValidate(u.Password)
    ELSE EmailValidate(u.Email)

\* func (u *User) Validate() error: email, then password, then phone
UserValidate(u) ==
    IF ~IsNil(EmailValidate(u.Email)) THEN EmailValidate(u.Email)
    ELSE IF ~IsNil(PasswordValidate(u.Password)) THEN PasswordValidate(u.Password)
    ELSE PhoneValidate(u.Phone)

\* func NewUser(firstName, lastName, email, phone, password): id is the value
\* utils.NewUUID() returned; the entity is nil when validation fails
NewUser(email, phone, password, id) ==
    LET user == [ID |-> id, Email |-> email, Phone |-> phone,
                 Password |-> NewPassword(password)]
    IN  IF ~IsNil(UserValidate(user))
        THEN [user |-> <<>>, err |-> UserValidate(user)]
        ELSE [user |-> <<user>>, err |-> NilErr]

\* func UserFromDatabase(id, ..., email, phone, password, ...)
UserFromDatabase(row) ==
    [ID |-> row.ID, Email |-> row.Email, Phone |-> row.Phone, Password |-> row.Password]

\* -------------------------------------------------------- the users table
\* what can go wrong in the store apart from the constraints of the table:
\* nothing, a failure below SQL (connection busy, closed, context cancelled),
\* or a server error other than a constraint violation
Faults == {"none", "conn", "server"}

\* INSERT INTO users (...) VALUES (...) RETURNING *: id is DEFAULT
\* gen_random_uuid(), email is UNIQUE
InsertUser(rows, email, phone, password, dbid, fault) ==
    IF fault = "conn"
    THEN [err |-> PlainErr("pgx", "conn busy"), rows |-> rows, row |-> <<>>]
    ELSE IF fault = "server"
    THEN [err |-> PgError("53300"), rows |-> rows, row |-> <<>>]
    ELSE IF \E r \in rows : r.Email = email
    THEN [err |-> PgError("23505"), rows |-> rows, row |-> <<>>]
    ELSE LET row == [ID |-> dbid, Email |-> email, Phone |-> phone, Password |-> password]
         IN  [err |-> NilErr, rows |-> rows \cup {row}, row |-> <<row>>]

\* SELECT * FROM users WHERE email = $1, scanned as one row
SelectUserByEmail(rows, email, fault) ==
    IF fault = "conn"
    THEN [err |-> PlainErr("pgx", "conn busy"), row |-> <<>>]
    ELSE IF fault = "server"
    THEN [err |-> PgError("53300"), row |-> <<>>]
    ELSE IF \E r \in rows : r.Email = email
    THEN [err |-> NilErr, row |-> <<CHOOSE r \in rows : r.Email = email>>]
    ELSE [err |-> PlainErr("pgx", "no rows in result set"), row |-> <<>>]

\* UPDATE users SET password = $2, updated_at = $3 WHERE id = $1: n is the
\* number of rows affected
UpdateUserPassword(rows, id, password, fault) ==
    IF fault = "conn"
    THEN [err |-> PlainErr("pgx", "conn busy"), rows |-> rows, n |-> 0]
    ELSE IF fault = "server"
    THEN [err |-> PgError("53300"), rows |-> rows, n |-> 0]
    ELSE [err |-> NilErr,
          rows |-> {IF r.ID = id THEN [r EXCEPT !.Password = password] ELSE r : r \in rows},
          n |-> Cardinality({r \in rows : r.ID = id})]

\* ------------------------------------------------------------- repository
CreateUserUnhashed(rows, user, salt, dbid, fault) ==
    LET ins == InsertUser(rows, user.Email, user.Phone, user.Password, dbid, fault)
    IN  IF ~IsNil(ins.err)
        THEN [user |-> <<>>, rows |-> rows, dbErr |-> ins.err,
              err |-> IF isDuplicateKeyError(ins.err)
                      THEN NewAlreadyExistsError("user with email already exists")
                      ELSE NewInternalError("failed to create user")]
        ELSE [user |-> <<UserFromDatabase(ins.row[1])>>, rows |-> ins.rows,
              dbErr |-> NilErr, err |-> NilErr]

\* func (ur *UserRepository) CreateUser(ctx, user): salt is the salt bcrypt
\* draws, dbid the id the table generates; dbErr is what the query returned
CreateUser(rows, user, salt, dbid, fault) ==
    LET hashed == Hash(user.Password, salt)
        ins    == InsertUser(rows, user.Email, user.Phone, hashed.hash, dbid, fault)
    IN  IF ~IsNil(hashed.err)
        THEN [user |-> <<>>, rows |-> rows, dbErr |-> NilErr,
              err |-> NewInternalError("failed to hash password")]
        ELSE IF ~IsNil(ins.err)
        THEN [user |-> <<>>, rows |-> rows, dbErr |-> ins.err,
              err |-> IF isDuplicateKeyError(ins.err)
                      THEN NewAlreadyExistsError("user with email already exists")
                      ELSE NewInternalError("failed to create user")]
        ELSE [user |-> <<UserFromDatabase(ins.row[1])>>, rows |-> ins.rows,
              dbErr |-> NilErr, err |-> NilErr]

\* func (ur *UserRepository) GetUserByEmail(ctx, email)
GetUserByEmail(rows, email, fault) ==
    LET sel == SelectUserByEmail(rows, email, fault)
    IN  IF ~IsNil(sel.err)
        THEN [user |-> <<>>, dbErr |-> sel.err,
              err |-> NewInternalError("failed to get user by email")]
        ELSE [user |-> <<UserFromDatabase(sel.row[1])>>, dbErr |-> NilErr, err |-> NilErr]

\* func (ur *UserRepository) ChangePassword(ctx, id, newPassword): id 0 is a
\* string uuid.Scan refuses; newPassword is written as it was passed
ChangePassword(rows, id, newPassword, fault) ==
    LET upd == UpdateUserPassword(rows, id, newPassword, fault)
    IN  IF id = 0
        THEN [n |-> 0, rows |-> rows, dbErr |-> NilErr,
              err |-> NewInvalidData("invalid user ID")]
        ELSE IF ~IsNil(upd.err)
        THEN [n |-> 0, rows |-> rows, dbErr |-> upd.err,
              err |-> NewInternalError("failed to change password")]
        ELSE [n |-> upd.n, rows |-> upd.rows, dbErr |-> NilErr, err |-> NilErr]

\* ---------------------------------------------------------- token service
\* the byte strings a secret is configured as, with the two secrets of a
\* service instance: distinct, equal, and distinct as byte strings but the
\* same HMAC key
SecretConfigs == { <<(<<1>>), (<<2>>)>>, <<(<<1>>), (<<1>>)>>, <<(<<1>>), (<<1, 0>>)>> }

Secrets == {<<1>>, <<2>>, <<1, 0>>}

\* crypto/hmac pads a key shorter than the block size with zero bytes, so a
\* key is what is left of the secret without its trailing zero bytes
RECURSIVE HmacKey(_)
HmacKey(secret) ==
    IF Len(secret) > 0 /\ secret[Len(secret)] = 0
    THEN HmacKey(SubSeq(secret, 1, Len(secret) - 1))
    ELSE secret

\* func NewJWTService(accessSecret, refreshSecret, accessExpiresIn, refreshExpiresIn)
NewJWTService(accessSecret, refreshSecret, accessExpiresIn, refreshExpiresIn) ==
    [accessSecret |-> accessSecret, refreshSecret |-> refreshSecret,
     accessExpiresIn |-> accessExpiresIn, refreshExpiresIn |-> refreshExpiresIn]

\* a time.Duration of whole seconds, in ticks
Seconds(n) == n * TicksPerSecond

\* jwt.NewNumericDate(t): t truncated to jwt.TimePrecision, one second
NewNumericDate(t) == t \div TicksPerSecond

\* the signing methods registered with the jwt library, and the HMAC family
RegisteredAlgs == {"HS256", "HS384", "HS512", "RS256", "none"}

HmacAlgs == {"HS256", "HS384", "HS512"}

signTokenAnonymous(user, createTime, secret, expiresIn, uuid) ==
    [malformed |-> FALSE, alg |-> "HS256", key |-> HmacKey(secret), tampered |-> FALSE,
     UserID |-> 0, TokenID |-> 0, iss |-> "UserService",
     exp |-> NewNumericDate(createTime + expiresIn),
     nbf |-> NewNumericDate(createTime),
     iat |-> NewNumericDate(createTime),
     jti |-> uuid]

\* func (j *JWTService) signToken(user, createTime, secret, expiresIn): uuid is
\* the value utils.NewUUID() returned. A token string is the record of its
\* header and claims with the key its signature verifies under; TokenID is the
\* field of service.TokenClaims the claims are built without
signToken(user, createTime, secret, expiresIn, uuid) ==
    [malformed |-> FALSE, alg |-> "HS256", key |-> HmacKey(secret), tampered |-> FALSE,
     UserID |-> user.ID, TokenID |-> 0, iss |-> "UserService",
     exp |-> NewNumericDate(createTime + expiresIn),
     nbf |-> NewNumericDate(createTime),
     iat |-> NewNumericDate(createTime),
     jti |-> uuid]

\* which of the two token.SignedString(secret) calls of a GenerateToken call
\* returns an error: none, the one for the access token, the one for the
\* refresh token. SignedString returns (string, error); with HS256 and a
\* []byte key the library has no failing path of its own, so a failure is
\* the outcome its signature allows, not one a request can provoke
SignOutcomes == {"ok", "access", "refresh"}

\* the error SignedString returns when it fails
SignError == PlainErr("jwt", "signing failed")

GenerateTokenOneSecret(user, createTime, uuid1, uuid2, sign) ==
    IF sign = "access" \/ sign = "refresh"
    THEN [pair |-> <<>>, err |-> SignError]
    ELSE [pair |-> << [AccessToken  |-> signToken(user, createTime, j.accessSecret,
                                                   j.accessExpiresIn, uuid1),
                       RefreshToken |-> signToken(user, createTime, j.accessSecret,
                                                   j.refreshExpiresIn, uuid2),
                       ExpiresIn    |-> j.accessExpiresIn \div TicksPerSecond] >>,
          err |-> NilErr]

GenerateTokenPartial(user, createTime, uuid1, uuid2, sign) ==
    [pair |-> IF sign = "access"
              THEN <<>>
              ELSE << [AccessToken  |-> signToken(user, createTime, j.accessSecret,
                                                   j.accessExpiresIn, uuid1),
                       RefreshToken |-> IF sign = "refresh"
                                        THEN [malformed |-> TRUE, alg |-> "HS256",
                                              key |-> <<>>, tampered |-> FALSE, UserID |-> 0,
                                              TokenID |-> 0, iss |-> "", exp |-> 0, nbf |-> 0,
                                              iat |-> 0, jti |-> 0]
                                        ELSE signToken(user, createTime, j.refreshSecret,
                                                       j.refreshExpiresIn, uuid2),
                       ExpiresIn    |-> j.accessExpiresIn \div TicksPerSecond] >>,
     err |-> IF sign = "ok" THEN NilErr ELSE SignError]

GenerateTokenTwoClocks(user, createTime, uuid1, uuid2, sign) ==
    IF sign = "access" \/ sign = "refresh"
    THEN [pair |-> <<>>, err |-> SignError]
    ELSE [pair |-> << [AccessToken  |-> signToken(user, createTime, j.accessSecret,
                                                   j.accessExpiresIn, uuid1),
                       RefreshToken |-> signToken(user, createTime + TicksPerSecond,
                                                   j.refreshSecret, j.refreshExpiresIn, uuid2),
                       ExpiresIn    |-> j.accessExpiresIn \div TicksPerSecond] >>,
          err |-> NilErr]

\* func (j *JWTService) GenerateToken(user): createTime is time.Now(), uuid1
\* and uuid2 the two UUIDs drawn, sign the outcome of the two signatures
GenerateToken(user, createTime, uuid1, uuid2, sign) ==
    IF sign = "access"
    THEN [pair |-> <<>>, err |-> SignError]
    ELSE IF sign = "refresh"
    THEN [pair |-> <<>>, err |-> SignError]
    ELSE [pair |-> << [AccessToken  |-> signToken(user, createTime, j.accessSecret,
                                                   j.accessExpiresIn, uuid1),
                       RefreshToken |-> signToken(user, createTime, j.refreshSecret,
                                                   j.refreshExpiresIn, uuid2),
                       ExpiresIn    |-> j.accessExpiresIn \div TicksPerSecond] >>,
          err |-> NilErr]

KeyFuncAnyMethod(tok, secret) == [key |-> <<secret>>, err |-> NilErr]

\* the Keyfunc ValidateToken passes to the parser
KeyFunc(tok, secret) ==
    IF tok.alg \notin HmacAlgs
    THEN [key |-> <<>>, err |-> NewInvalidData("unexpected signing method")]
    ELSE [key |-> <<secret>>, err |-> NilErr]

\* token.Method.Verify(text, signature, key)
SignatureError(tok, key) ==
    IF tok.alg \in HmacAlgs /\ ~tok.tampered /\ tok.key = HmacKey(key)
    THEN NilErr
    ELSE PlainErr("jwt", "token signature is invalid")

ClaimsErrorNoExpiry(tok, t) ==
    IF t < Seconds(tok.nbf)
    THEN PlainErr("jwt", "token has invalid claims: token is not valid yet")
    ELSE NilErr

\* jwt.Validator.Validate(claims) at time t: exp and nbf (iat is not verified
\* unless asked for)
ClaimsError(tok, t) ==
    IF ~(t < Seconds(tok.exp))
    THEN PlainErr("jwt", "token has invalid claims: token is expired")
    ELSE IF t < Seconds(tok.nbf)
    THEN PlainErr("jwt", "token has invalid claims: token is not valid yet")
    ELSE NilErr

\* jwt.ParseWithClaims(tokenString, &customClaims{}, keyfunc) at time t:
\* sigKey is the key handed to Verify, if Verify was reached
ParseWithClaims(tok, secret, t) ==
    LET kf == KeyFunc(tok, secret)
    IN  IF tok.malformed
        THEN [valid |-> FALSE, sigKey |-> <<>>,
              err |-> PlainErr("jwt", "token is malformed")]
        ELSE IF tok.alg \notin RegisteredAlgs
        THEN [valid |-> FALSE, sigKey |-> <<>>,
              err |-> PlainErr("jwt", "token is unverifiable: signing method (alg) is unavailable")]
        ELSE IF ~IsNil(kf.err)
        THEN [valid |-> FALSE, sigKey |-> <<>>,
              err |-> PlainErr("jwt", "token is unverifiable: error while executing keyfunc")]
        ELSE IF ~IsNil(SignatureError(tok, kf.key[1]))
        THEN [valid |-> FALSE, sigKey |-> kf.key, err |-> SignatureError(tok, kf.key[1])]
        ELSE IF ~IsNil(ClaimsError(tok, t))
        THEN [valid |-> FALSE, sigKey |-> kf.key, err |-> ClaimsError(tok, t)]
        ELSE [valid |-> TRUE, sigKey |-> kf.key, err |-> NilErr]

ValidateTokenIssuedOnly(tok, secret, t) ==
    LET parsed == ParseWithClaims(tok, secret, t)
        known  == \E i \in 1..Len(issued.pair) :
                      tok \in {issued.pair[i].AccessToken, issued.pair[i].RefreshToken}
    IN  IF ~IsNil(parsed.err)
        THEN [claims |-> <<>>, err |-> parsed.err, sigKey |-> parsed.sigKey]
        ELSE IF parsed.valid /\ known
        THEN [claims |-> << [UserID |-> tok.UserID, TokenID |-> tok.TokenID] >>,
              err |-> NilErr, sigKey |-> parsed.sigKey]
        ELSE [claims |-> <<>>, sigKey |-> parsed.sigKey,
              err |-> NewInvalidData("invalid token claims or token is not valid")]

\* func (j *JWTService) ValidateToken(tokenString, secret) at time t
ValidateToken(tok, secret, t) ==
    LET parsed == ParseWithClaims(tok, secret, t)
    IN  IF ~IsNil(parsed.err)
        THEN [claims |-> <<>>, err |-> parsed.err, sigKey |-> parsed.sigKey]
        ELSE IF parsed.valid
        THEN [claims |-> << [UserID |-> tok.UserID, TokenID |-> tok.TokenID] >>,
              err |-> NilErr, sigKey |-> parsed.sigKey]
        ELSE [claims |-> <<>>, sigKey |-> parsed.sigKey,
              err |-> NewInvalidData("invalid token claims or token is not valid")]

\* ---------------------------------------------------------------- use case
RegisterUserWrapping(rows, email, phone, password, newid, salt, dbid, fault) ==
    LET nu  == NewUser(email, phone, password, newid)
        cre == CreateUser(rows, nu.user[1], salt, dbid, fault)
    IN  IF ~IsNil(nu.err)
        THEN [user |-> <<>>, rows |-> rows, dbErr |-> NilErr, err |-> nu.err,
              steps |-> <<"NewUser">>]
        ELSE [user |-> cre.user, rows |-> cre.rows, dbErr |-> cre.dbErr,
              err |-> IF ~IsNil(cre.err)
                      THEN PlainErr("plain", "register user: " \o cre.err.msg)
                      ELSE cre.err,
              steps |-> <<"NewUser", "CreateUser">>]

RegisterUserUnvalidated(rows, email, phone, password, newid, salt, dbid, fault) ==
    LET nu  == NewUser(email, phone, password, newid)
        cre == CreateUser(rows, [ID |-> newid, Email |-> email, Phone |-> phone,
                                 Password |-> NewPassword(password)], salt, dbid, fault)
    IN  [user |-> IF IsNil(nu.err) THEN cre.user ELSE <<>>, rows |-> cre.rows,
         dbErr |-> cre.dbErr, err |-> IF IsNil(nu.err) THEN cre.err ELSE nu.err,
         steps |-> <<"NewUser", "CreateUser">>]

\* func (u *UserUseCase) RegisterUser(ctx, params): newid is the id NewUser
\* draws, salt and dbid what CreateUser and the table draw; steps are the
\* calls it made, in order
RegisterUser(rows, email, phone, password, newid, salt, dbid, fault) ==
    LET nu  == NewUser(email, phone, password, newid)
        cre == CreateUser(rows, nu.user[1], salt, dbid, fault)
    IN  IF ~IsNil(nu.err)
        THEN [user |-> <<>>, rows |-> rows, dbErr |-> NilErr, err |-> nu.err,
              steps |-> <<"NewUser">>]
        ELSE [user |-> cre.user, rows |-> cre.rows, dbErr |-> cre.dbErr, err |-> cre.err,
              steps |-> <<"NewUser", "CreateUser">>]

LoginIssuesAnyway(rows, email, password, t, uuid1, uuid2, fault, sign) ==
    LET got == GetUserByEmail(rows, email, fault)
    IN  IF ~IsNil(got.err)
        THEN [pair |-> <<>>, dbErr |-> got.dbErr, err |-> got.err,
              steps |-> <<"GetUserByEmail">>]
        ELSE [pair |-> GenerateToken(got.user[1], t, uuid1, uuid2, sign).pair,
              dbErr |-> NilErr,
              err |-> GenerateToken(got.user[1], t, uuid1, uuid2, sign).err,
              steps |-> <<"GetUserByEmail", "CompareHash", "GenerateToken">>]

\* func (u *UserUseCase) Login(ctx, params) at time t: the stored password is
\* the receiver of CompareHash and the request's password its argument; steps
\* are the calls it made, in order
Login(rows, email, password, t, uuid1, uuid2, fault, sign) ==
    LET got == GetUserByEmail(rows, email, fault)
        cmp == CompareHash(got.user[1].Password, password)
    IN  IF ~IsNil(got.err)
        THEN [pair |-> <<>>, dbErr |-> got.dbErr, err |-> got.err,
              steps |-> <<"GetUserByEmail">>]
        ELSE IF ~IsNil(cmp)
        THEN [pair |-> <<>>, dbErr |-> NilErr, err |-> cmp,
              steps |-> <<"GetUserByEmail", "CompareHash">>]
        ELSE [pair |-> GenerateToken(got.user[1], t, uuid1, uuid2, sign).pair,
              dbErr |-> NilErr,
              err |-> GenerateToken(got.user[1], t, uuid1, uuid2, sign).err,
              steps |-> <<"GetUserByEmail", "CompareHash", "GenerateToken">>]

\* ------------------------------------------------------------------ inputs
Plaintexts == {"short12", "exactly8", "password9"}

\* what a client may send as the password of a login: a text, or a string it
\* computed or obtained: a stored hash, or bcrypt over a stored hash
LoginPasswords ==
    {NewPassword(p) : p \in Plaintexts}
        \cup {r.Password : r \in users}
        \cup {GenerateFromPassword(r.Password, "0") : r \in users}

\* the text a bcrypt hash was computed from
PlaintextOf(hash) == SubSeq(hash, 3, Len(hash))

NoResp ==
    [op |-> "none", email |-> "", phone |-> "", password |-> <<>>, code |-> "", pair |-> <<>>,
     err |-> NilErr, dbErr |-> NilErr, user |-> <<>>, collab |-> NilErr, steps |-> <<>>,
     newid |-> 0]

NoIssued == [pair |-> <<>>, err |-> NilErr, user |-> 0, createTime |-> 0, sign |-> "ok"]

MalformedToken ==
    [malformed |-> TRUE, alg |-> "HS256", key |-> <<>>, tampered |-> FALSE,
     UserID |-> 0, TokenID |-> 0, iss |-> "", exp |-> 0, nbf |-> 0, iat |-> 0, jti |-> 0]

NoVres ==
    [tok |-> MalformedToken, secret |-> <<>>, t |-> 0, called |-> FALSE,
     claims |-> <<>>, err |-> NilErr, sigKey |-> <<>>, code |-> ""]

\* the instants a token built outside the service may carry, in seconds
ForgedNotBefore == {0, 1}

ForgedExpiry == {0, AccessExpiresInSeconds + 1}

\* token strings built outside the service: not a token at all, a token of a
\* method outside the HMAC family or of no registered method, and HMAC tokens
\* signed with some key, intact or with a signature byte flipped
ForgedTokens ==
    {MalformedToken}
        \cup [malformed : {FALSE}, alg : {"none", "RS256", "XX999"}, key : {<<>>},
              tampered : {FALSE}, UserID : {1}, TokenID : {0}, iss : {"UserService"},
              exp : {AccessExpiresInSeconds + 1}, nbf : {0}, iat : {0}, jti : {0}]
        \cup [malformed : {FALSE}, alg : {"HS256"}, key : {HmacKey(s) : s \in Secrets},
              tampered : {FALSE}, UserID : {1}, TokenID : {0}, iss : {"UserService"},
              exp : ForgedExpiry, nbf : ForgedNotBefore, iat : {0}, jti : {0}]
        \cup [malformed : {FALSE}, alg : {"HS256", "HS512"}, key : {<<1>>},
              tampered : BOOLEAN, UserID : {1}, TokenID : {0}, iss : {"UserService"},
              exp : {AccessExpiresInSeconds + 1}, nbf : {0}, iat : {0}, jti : {0}]

\* the identifiers of the users tokens are issued for directly
UserIDs == {1, 2}

\* the goroutines that call GenerateToken on the shared service instance
Goroutines == 1..NumCallers

\* a GenerateToken call that has not started: pc is the statement it is at
NoCall == [pc |-> "start", createTime |-> 0, access |-> <<>>, pair |-> <<>>]

\* a text of 73 bytes
LongText == "0123456789012345678901234567890123456789012345678901234567890123456789012"

\* the texts the password value object is used on directly
PasswordTexts == Plaintexts \cup TwoByteRuneTexts \cup {LongText}

\* the strings a stored password may be compared as, next to the hash of the
\* text: a truncated hash and a text that was never hashed
MalformedHashes == {<<"$2a$10$">>, <<"never-hashed">>}

NoPw ==
    [op |-> "none", text |-> "", hash |-> <<>>, prev |-> <<>>, stored |-> <<>>,
     input |-> <<>>, err |-> NilErr, code |-> ""]

\* what a caller of the repository may pass as the new password: a text, or
\* the bcrypt hash it computed from the text
NewPasswordArgs ==
    {NewPassword("password10"), GenerateFromPassword(NewPassword("password10"), "0")}

\* the procedures whose handler returns a nil response and a nil error, on
\* which connect's unary handler panics inside the interceptor chain
NilProcedures == {"ChangePassword", "GetProfile", "GetPublicProfile"}

\* the requests the server handles at the same time, each in a goroutine
Requests == 1..NumRequests

\* the emails of the requests that race
RaceEmails == {"a@shop.io", "b@shop.io"}

\* a request that has not arrived: pc is where its goroutine is, newid the id
\* NewUser drew, salt the salt of its hash, overlapped whether another
\* request was using the connection when its statement ran
NoReq ==
    [op |-> "none", email |-> "", pc |-> "idle", newid |-> 0, salt |-> "",
     overlapped |-> FALSE, dbErr |-> NilErr, err |-> NilErr, code |-> "", user |-> <<>>]

\* the *pgx.Conn main opens: status is pgconn's connStatusIdle or
\* connStatusBusy, using the requests between lock and unlock
IdleConn == [status |-> "idle", using |-> {}]

\* the process once main has connected to the database and
\* startConnectServer has started the serving goroutine and waits on quit.
\* main is the statement the main goroutine is at, serve the state of the
\* serving goroutine: before ListenAndServe listens, serving, returned with a
\* listen error (failed) or with ErrServerClosed (closed); signal is the
\* signal buffered in quit, inflight the connections being served, elapsed
\* the seconds Shutdown has waited, exit how the process ended
StartedProc ==
    [main |-> "waiting", serve |-> "starting", signal |-> "", shutdownCalled |-> FALSE,
     inflight |-> 0, elapsed |-> 0, printed |-> FALSE, dbClosed |-> FALSE, exit |-> "running"]

\* ----------------------------------------------------------------- actions
\* func StartConnect(cfg, dbConn) with the secrets of the configuration file
StartConnect(accessSecret, refreshSecret) ==
    NewJWTService(accessSecret, refreshSecret, Seconds(AccessExpiresInSeconds),
                  Seconds(RefreshExpiresInSeconds))

InitRest ==
    /\ now = 0
    /\ ticks = 0
    /\ uuids = 0
    /\ salts = 0
    /\ users = {}
    /\ resp = NoResp
    /\ issued = NoIssued
    /\ vres = NoVres
    /\ calls = [g \in Goroutines |-> NoCall]
    /\ pw = NoPw
    /\ reqs = [r \in Requests |-> NoReq]
    /\ conn = IdleConn
    /\ prog = StartedProc

\* the service as started with two different secrets
Init == j = StartConnect(<<1>>, <<2>>) /\ InitRest

\* the service as started with any configuration of the secrets
InitJWT == j \in {StartConnect(c[1], c[2]) : c \in SecretConfigs} /\ InitRest

\* time passes: less than a second, or as long as a token lives
Tick ==
    /\ ticks < MaxTicks
    /\ \E d \in {1, j.accessExpiresIn, j.refreshExpiresIn} : now' = now + d
    /\ ticks' = ticks + 1
    /\ vres' = NoVres
    /\ UNCHANGED <<j, uuids, salts, users, resp, issued, calls, pw, reqs, conn, prog>>

\* func (h *userServiceHandler) Register(ctx, req)
Register ==
    /\ uuids + 2 <= MaxUUID
    /\ salts + 1 <= MaxSalt
    /\ \E email \in Emails, phone \in Phones, password \in Plaintexts, fault \in Faults :
        LET nu  == NewUser(email, phone, password, uuids + 1)
            ret == RegisterUser(users, email, phone, password, uuids + 1,
                                ToString(salts + 1), uuids + 2, fault)
            \* the error the use case received from NewUser or CreateUser
            col == IF ~IsNil(nu.err)
                   THEN nu.err
                   ELSE CreateUser(users, nu.user[1], ToString(salts + 1),
                                   uuids + 2, fault).err
        IN  /\ users' = ret.rows
            /\ uuids' = IF IsNil(ret.err) THEN uuids + 2 ELSE uuids + 1
            /\ salts' = IF IsNil(nu.err) THEN salts + 1 ELSE salts
            /\ resp' = [op |-> "Register", email |-> email, phone |-> phone,
                        password |-> NewPassword(password),
                        code |-> IF IsNil(ret.err) THEN "OK" ELSE MapError(ret.err),
                        pair |-> <<>>, err |-> ret.err, dbErr |-> ret.dbErr,
                        user |-> ret.user, collab |-> col, steps |-> ret.steps,
                        newid |-> uuids + 1]
    /\ UNCHANGED <<j, now, ticks, issued, vres, calls, pw, reqs, conn, prog>>

\* func (h *userServiceHandler) Login(ctx, req)
LoginHandler ==
    /\ uuids + 2 <= MaxUUID
    /\ \E email \in Emails, password \in LoginPasswords, fault \in Faults,
           sign \in SignOutcomes :
        LET ret == Login(users, email, password, now, uuids + 1, uuids + 2, fault, sign)
            got == GetUserByEmail(users, email, fault)
            \* the error the use case received from the repository, the
            \* password value object or the token service
            col == IF ~IsNil(got.err)
                   THEN got.err
                   ELSE IF ~IsNil(CompareHash(got.user[1].Password, password))
                   THEN CompareHash(got.user[1].Password, password)
                   ELSE GenerateToken(got.user[1], now, uuids + 1, uuids + 2, sign).err
        IN  /\ uuids' = IF IsNil(ret.err) THEN uuids + 2
                         ELSE IF ~IsNil(got.err) THEN uuids
                         ELSE IF ~IsNil(CompareHash(got.user[1].Password, password)) THEN uuids
                         ELSE IF sign = "access" THEN uuids + 1
                         ELSE uuids + 2
            /\ resp' = [op |-> "Login", email |-> email, phone |-> "", password |-> password,
                        code |-> IF IsNil(ret.err) THEN "OK" ELSE MapError(ret.err),
                        pair |-> ret.pair, err |-> ret.err, dbErr |-> ret.dbErr,
                        user |-> <<>>, collab |-> col, steps |-> ret.steps, newid |-> 0]
    /\ UNCHANGED <<j, now, ticks, salts, users, issued, vres, calls, pw, reqs, conn, prog>>

\* a direct call of GenerateToken for a user entity, the outcome of its
\* signatures among signs
IssueWith(signs) ==
    /\ uuids < 2 * MaxIssues
    /\ \E id \in UserIDs, sign \in signs :
        LET ret == GenerateToken([ID |-> id], now, uuids + 1, uuids + 2, sign)
        IN  /\ issued' = [pair |-> ret.pair, err |-> ret.err, user |-> id, createTime |-> now,
                       sign |-> sign]
           /\ uuids' = IF sign = "access" THEN uuids + 1 ELSE uuids + 2
    /\ vres' = NoVres
    /\ UNCHANGED <<j, now, ticks, salts, users, resp, calls, pw, reqs, conn, prog>>

\* GenerateToken as the library lets it run: both signatures succeed
Issue == IssueWith({"ok"})

\* GenerateToken with every outcome the signature of SignedString allows
IssueFallible == IssueWith(SignOutcomes)

\* the token strings a caller may hold: those of the last pair issued, and
\* those built outside the service
TokenStrings ==
    ForgedTokens
        \cup {issued.pair[i].AccessToken : i \in 1..Len(issued.pair)}
        \cup {issued.pair[i].RefreshToken : i \in 1..Len(issued.pair)}

\* a direct call of ValidateToken, its error classified by MapError
Verify ==
    /\ \E tok \in TokenStrings, secret \in {j.accessSecret, j.refreshSecret} :
        LET ret == ValidateToken(tok, secret, now)
        IN  vres' = [tok |-> tok, secret |-> secret, t |-> now, called |-> TRUE,
                     claims |-> ret.claims, err |-> ret.err, sigKey |-> ret.sigKey,
                     code |-> IF IsNil(ret.err) THEN "OK" ELSE MapError(ret.err)]
    /\ UNCHANGED <<j, now, ticks, uuids, salts, users, resp, issued, calls, pw, reqs, conn, prog>>

\* the registration and login flows
Next == Register \/ LoginHandler

Spec == Init /\ [][Next]_vars

\* the token service on its own
NextJWT == Issue \/ Verify \/ Tick

SpecJWT == InitJWT /\ [][NextJWT]_vars

\* the token service when a signature may fail
NextSign == IssueFallible \/ Tick

SpecSign == InitJWT /\ [][NextSign]_vars

\* func (ur *UserRepository) ChangePassword(ctx, id, newPassword), called with
\* the id of a stored user, an unknown id or an id that is not a UUID
ChangeUserPassword ==
    /\ \E id \in {0, uuids + 1} \cup {r.ID : r \in users}, newPassword \in NewPasswordArgs,
           fault \in Faults :
        LET ret == ChangePassword(users, id, newPassword, fault)
        IN  /\ users' = ret.rows
            /\ resp' = [op |-> "ChangePassword", email |-> "", phone |-> "",
                        password |-> newPassword,
                        code |-> IF IsNil(ret.err) THEN "OK" ELSE MapError(ret.err),
                        pair |-> <<>>, err |-> ret.err, dbErr |-> ret.dbErr,
                        user |-> <<>>, collab |-> ret.err, steps |-> <<"ChangePassword">>,
                        newid |-> 0]
    /\ UNCHANGED <<j, now, ticks, uuids, salts, issued, vres, calls, pw, reqs, conn, prog>>

\* the repository as its callers may use it to write a password
NextStore == Register \/ ChangeUserPassword

SpecStore == Init /\ [][NextStore]_vars

\* the unary function newRecoverInterceptors() wraps around next: next is the
\* outcome of next(ctx, req). The results are unnamed, so after a recovered
\* panic the function returns their zero values
newRecoverInterceptors(next) ==
    IF next.panicked
    THEN [response |-> <<>>, err |-> NilErr, logged |-> TRUE]
    ELSE [response |-> next.response, err |-> next.err, logged |-> FALSE]

\* a request for a procedure whose handler returns (nil, nil): the unary
\* function the interceptor wraps panics on the nil response. code is the
\* code of the error the interceptor returns, "" when it returns none
ServeNilProcedure ==
    /\ \E proc \in NilProcedures :
        LET ret == newRecoverInterceptors([panicked |-> TRUE, response |-> <<>>,
                                           err |-> NilErr])
        IN  resp' = [op |-> proc, email |-> "", phone |-> "", password |-> <<>>,
                     code |-> IF IsNil(ret.err) THEN "" ELSE MapError(ret.err),
                     pair |-> <<>>, err |-> ret.err, dbErr |-> NilErr,
                     user |-> ret.response, collab |-> NilErr, steps |-> <<>>, newid |-> 0]
    /\ UNCHANGED <<j, now, ticks, uuids, salts, users, issued, vres, calls, pw, reqs, conn, prog>>

\* the server with all its procedures
NextServer == Register \/ LoginHandler \/ ServeNilProcedure

SpecServer == Init /\ [][NextServer]_vars

\* func (p Password) Validate(), on a text
ValidatePassword ==
    /\ \E text \in PasswordTexts :
        LET err == PasswordValidate(NewPassword(text))
        IN  pw' = [op |-> "Validate", text |-> text, hash |-> <<>>, prev |-> <<>>,
                   stored |-> <<>>,
                   input |-> <<>>, err |-> err,
                   code |-> IF IsNil(err) THEN "OK" ELSE MapError(err)]
    /\ UNCHANGED <<j, now, ticks, uuids, salts, users, resp, issued, vres, calls, reqs, conn, prog>>

\* func (p Password) Hash(), on a text; prev is the hash of the call before
\* when it was on the same text
HashPassword ==
    /\ salts < MaxSalt
    /\ \E text \in PasswordTexts :
        LET h == Hash(NewPassword(text), ToString(salts + 1))
        IN  /\ pw' = [op |-> "Hash", text |-> text, hash |-> h.hash,
                      prev |-> IF pw.text = text THEN pw.hash ELSE <<>>, stored |-> <<>>,
                      input |-> <<>>, err |-> h.err,
                      code |-> IF IsNil(h.err) THEN "OK" ELSE MapError(h.err)]
            /\ salts' = IF IsNil(h.err) THEN salts + 1 ELSE salts
    /\ UNCHANGED <<j, now, ticks, uuids, users, resp, issued, vres, calls, reqs, conn, prog>>

\* func (p Password) CompareHash(hash), the receiver an input text and the
\* argument one of the last two hashes of the text or a string that is no hash
ComparePassword ==
    /\ pw.hash # <<>>
    /\ \E input \in {NewPassword(pw.text), NewPassword(pw.text \o "x"),
                      NewPassword("password10"), NewPassword("")},
           stored \in ({pw.hash, pw.prev} \ {<<>>}) \cup MalformedHashes :
        LET err == CompareHash(input, stored)
        IN  pw' = [op |-> "Compare", text |-> pw.text, hash |-> pw.hash, prev |-> pw.prev,
                   stored |-> stored,
                   input |-> input, err |-> err,
                   code |-> IF IsNil(err) THEN "OK" ELSE MapError(err)]
    /\ UNCHANGED <<j, now, ticks, uuids, salts, users, resp, issued, vres, calls, reqs, conn, prog>>

\* the password value object on its own
NextPassword == ValidatePassword \/ HashPassword \/ ComparePassword

SpecPassword == Init /\ [][NextPassword]_vars

\* GenerateToken in goroutine g, statement by statement: time.Now()
CallNow(g) ==
    /\ calls[g].pc = "start"
    /\ calls' = [calls EXCEPT ![g] = [@ EXCEPT !.pc = "access", !.createTime = now]]
    /\ UNCHANGED <<j, now, ticks, uuids, salts, users, resp, issued, vres, pw, reqs, conn, prog>>

\* j.signToken(user, createTime, j.accessSecret, j.accessExpiresIn)
CallSignAccess(g) ==
    /\ calls[g].pc = "access"
    /\ calls' = [calls EXCEPT ![g] =
                    [@ EXCEPT !.pc = "refresh",
                              !.access = <<signToken([ID |-> 1], calls[g].createTime, j.accessSecret,
                                                     j.accessExpiresIn, uuids + 1)>>]]
    /\ uuids' = uuids + 1
    /\ UNCHANGED <<j, now, ticks, salts, users, resp, issued, vres, pw, reqs, conn, prog>>

\* j.signToken(user, createTime, j.refreshSecret, j.refreshExpiresIn) and the
\* return of the pair
CallSignRefresh(g) ==
    /\ calls[g].pc = "refresh"
    /\ calls' = [calls EXCEPT ![g] =
                    [@ EXCEPT !.pc = "done",
                              !.pair = << [AccessToken  |-> calls[g].access[1],
                                           RefreshToken |-> signToken([ID |-> 1],
                                                                calls[g].createTime,
                                                                j.refreshSecret,
                                                                j.refreshExpiresIn, uuids + 1),
                                           ExpiresIn    |-> j.accessExpiresIn \div TicksPerSecond] >>]]
    /\ uuids' = uuids + 1
    /\ UNCHANGED <<j, now, ticks, salts, users, resp, issued, vres, pw, reqs, conn, prog>>

\* concurrent GenerateToken calls for one user on one service instance
NextConc ==
    \/ \E g \in Goroutines : CallNow(g)
    \/ \E g \in Goroutines : CallSignAccess(g)
    \/ \E g \in Goroutines : CallSignRefresh(g)
    \/ Tick

SpecConc == InitJWT /\ [][NextConc]_vars

\* the statement and its answer for request r when the query runs with fault
\* fault: CreateUser for a register, Login for a login
Served(r, fault) ==
    IF reqs[r].op = "Register"
    THEN LET ret == CreateUser(users,
                               NewUser(reqs[r].email, "", "password9", reqs[r].newid).user[1],
                               reqs[r].salt, uuids + 1, fault)
         IN  [rows |-> ret.rows, dbErr |-> ret.dbErr, err |-> ret.err, user |-> ret.user]
    ELSE LET ret == Login(users, reqs[r].email, NewPassword("password9"), now,
                          uuids + 1, uuids + 2, fault, "ok")
         IN  [rows |-> users, dbErr |-> ret.dbErr, err |-> ret.err, user |-> <<>>]

\* a register or login request arrives and runs up to its query: a register
\* has built the entity (NewUser) and drawn the salt of its hash
Arrive(r) ==
    /\ reqs[r].pc = "idle"
    /\ \E op \in {"Register", "Login"}, email \in RaceEmails :
        /\ reqs' = [reqs EXCEPT ![r] =
                        [@ EXCEPT !.op = op, !.email = email, !.pc = "lock",
                                  !.newid = IF op = "Register" THEN uuids + 1 ELSE 0,
                                  !.salt = IF op = "Register" THEN ToString(salts + 1) ELSE ""]]
        /\ uuids' = IF op = "Register" THEN uuids + 1 ELSE uuids
        /\ salts' = IF op = "Register" THEN salts + 1 ELSE salts
    /\ UNCHANGED <<j, now, ticks, users, resp, issued, vres, calls, pw, conn, prog>>

\* pgconn's lock() reads the status of the connection: on connStatusBusy the
\* query fails with "conn busy" and the request ends with the error made of it
LockRead(r) ==
    /\ reqs[r].pc = "lock"
    /\ reqs' = [reqs EXCEPT ![r] =
                    IF conn.status = "busy"
                    THEN [@ EXCEPT !.pc = "done",
                                   !.dbErr = Served(r, "conn").dbErr,
                                   !.err = Served(r, "conn").err,
                                   !.code = MapError(Served(r, "conn").err)]
                    ELSE [@ EXCEPT !.pc = "locking"]]
    /\ UNCHANGED <<j, now, ticks, uuids, salts, users, resp, issued, vres, calls, pw, conn, prog>>

\* lock() then writes connStatusBusy: the status is a plain field, read and
\* written without synchronisation
LockWrite(r) ==
    /\ reqs[r].pc = "locking"
    /\ conn' = [status |-> "busy", using |-> conn.using \cup {r}]
    /\ reqs' = [reqs EXCEPT ![r] = [@ EXCEPT !.pc = "query"]]
    /\ UNCHANGED <<j, now, ticks, uuids, salts, users, resp, issued, vres, calls, pw, prog>>

\* the statement of request r runs. While another request uses the
\* connection the two exchanges share one wire, which pgx does not define:
\* the statement may run or fail
Exec(r) ==
    /\ reqs[r].pc = "query"
    /\ \E fault \in IF conn.using = {r} THEN {"none"} ELSE {"none", "conn"} :
        LET ret == Served(r, fault)
        IN  /\ users' = ret.rows
            /\ uuids' = IF reqs[r].op = "Register" /\ IsNil(ret.err) THEN uuids + 1
                         ELSE IF reqs[r].op = "Login" /\ IsNil(ret.err) THEN uuids + 2
                         ELSE uuids
            /\ reqs' = [reqs EXCEPT ![r] =
                            [@ EXCEPT !.pc = "unlock", !.dbErr = ret.dbErr, !.err = ret.err,
                                      !.user = ret.user,
                                      !.overlapped = conn.using # {r},
                                      !.code = IF IsNil(ret.err) THEN "OK"
                                               ELSE MapError(ret.err)]]
    /\ UNCHANGED <<j, now, ticks, salts, resp, issued, vres, calls, pw, conn, prog>>

\* the result was read: unlock() writes connStatusIdle, and the handler answers
Unlock(r) ==
    /\ reqs[r].pc = "unlock"
    /\ conn' = [status |-> "idle", using |-> conn.using \ {r}]
    /\ reqs' = [reqs EXCEPT ![r] = [@ EXCEPT !.pc = "done"]]
    /\ UNCHANGED <<j, now, ticks, uuids, salts, users, resp, issued, vres, calls, pw, prog>>

\* register and login requests served concurrently over the one connection
NextRace ==
    \/ \E r \in Requests : Arrive(r)
    \/ \E r \in Requests : LockRead(r)
    \/ \E r \in Requests : LockWrite(r)
    \/ \E r \in Requests : Exec(r)
    \/ \E r \in Requests : Unlock(r)

SpecRace == Init /\ [][NextRace]_vars

\* ------------------------------------------------------ process lifecycle
\* the signals signal.Notify routes to quit
Signals == {"SIGINT", "SIGTERM"}

\* server.ListenAndServe() binds the address and starts accepting
ListenAndServe ==
    /\ prog.exit = "running"
    /\ prog.serve = "starting"
    /\ ~prog.shutdownCalled
    /\ prog' = [prog EXCEPT !.serve = "serving"]
    /\ UNCHANGED <<j, now, ticks, uuids, salts, users, resp, issued, vres, calls, pw, reqs, conn>>

\* server.ListenAndServe() returns the error of net.Listen
ListenFails ==
    /\ prog.exit = "running"
    /\ prog.serve = "starting"
    /\ ~prog.shutdownCalled
    /\ prog' = [prog EXCEPT !.serve = "failed"]
    /\ UNCHANGED <<j, now, ticks, uuids, salts, users, resp, issued, vres, calls, pw, reqs, conn>>

\* once Shutdown was called, ListenAndServe returns http.ErrServerClosed,
\* whether it was serving or had not yet begun to
ServeClosed ==
    /\ prog.exit = "running"
    /\ prog.serve \in {"starting", "serving"}
    /\ prog.shutdownCalled
    /\ prog' = [prog EXCEPT !.serve = "closed"]
    /\ UNCHANGED <<j, now, ticks, uuids, salts, users, resp, issued, vres, calls, pw, reqs, conn>>

\* if err := server.ListenAndServe(); err != nil { log.Fatalf(...) }:
\* os.Exit(1), no deferred function runs
Fatalf ==
    /\ prog.exit = "running"
    /\ prog.serve \in {"failed", "closed"}
    /\ prog' = [prog EXCEPT !.exit = "fatal"]
    /\ UNCHANGED <<j, now, ticks, uuids, salts, users, resp, issued, vres, calls, pw, reqs, conn>>

\* the server accepts a connection and serves a request on it
AcceptRequest ==
    /\ prog.exit = "running"
    /\ prog.serve = "serving"
    /\ ~prog.shutdownCalled
    /\ prog.inflight < MaxInflight
    /\ prog' = [prog EXCEPT !.inflight = @ + 1]
    /\ UNCHANGED <<j, now, ticks, uuids, salts, users, resp, issued, vres, calls, pw, reqs, conn>>

\* a request is answered and its connection becomes idle
FinishRequest ==
    /\ prog.exit = "running"
    /\ prog.inflight > 0
    /\ prog' = [prog EXCEPT !.inflight = @ - 1]
    /\ UNCHANGED <<j, now, ticks, uuids, salts, users, resp, issued, vres, calls, pw, reqs, conn>>

\* signal.Notify(quit, os.Interrupt, syscall.SIGTERM): a signal is delivered
\* to quit, a channel of capacity one
Notify ==
    /\ prog.exit = "running"
    /\ prog.signal = ""
    /\ \E sig \in Signals : prog' = [prog EXCEPT !.signal = sig]
    /\ UNCHANGED <<j, now, ticks, uuids, salts, users, resp, issued, vres, calls, pw, reqs, conn>>

\* <-quit
ReceiveQuit ==
    /\ prog.exit = "running"
    /\ prog.main = "waiting"
    /\ prog.signal # ""
    /\ prog' = [prog EXCEPT !.main = "signalled"]
    /\ UNCHANGED <<j, now, ticks, uuids, salts, users, resp, issued, vres, calls, pw, reqs, conn>>

\* server.Shutdown(ctx) with ctx of 30 seconds is entered: the server is
\* marked as shutting down and its listeners are closed
Shutdown ==
    /\ prog.exit = "running"
    /\ prog.main = "signalled"
    /\ prog' = [prog EXCEPT !.main = "shutdown", !.shutdownCalled = TRUE, !.elapsed = 0]
    /\ UNCHANGED <<j, now, ticks, uuids, salts, users, resp, issued, vres, calls, pw, reqs, conn>>

\* Shutdown polls for the connections to become idle: a second passes
ShutdownWait ==
    /\ prog.exit = "running"
    /\ prog.main = "shutdown"
    /\ prog.inflight > 0
    /\ prog.elapsed < ShutdownLimitSeconds
    /\ prog' = [prog EXCEPT !.elapsed = @ + 1]
    /\ UNCHANGED <<j, now, ticks, uuids, salts, users, resp, issued, vres, calls, pw, reqs, conn>>

\* Shutdown returns: nil when every connection is idle, ctx.Err() when the
\* 30 seconds are over; the result is discarded
ShutdownReturns ==
    /\ prog.exit = "running"
    /\ prog.main = "shutdown"
    /\ prog.inflight = 0 \/ prog.elapsed = ShutdownLimitSeconds
    /\ prog' = [prog EXCEPT !.main = "stopped"]
    /\ UNCHANGED <<j, now, ticks, uuids, salts, users, resp, issued, vres, calls, pw, reqs, conn>>

\* fmt.Println("Server gracefully stopped"), startConnectServer returns
PrintStopped ==
    /\ prog.exit = "running"
    /\ prog.main = "stopped"
    /\ prog' = [prog EXCEPT !.main = "deferred", !.printed = TRUE]
    /\ UNCHANGED <<j, now, ticks, uuids, salts, users, resp, issued, vres, calls, pw, reqs, conn>>

\* the function main deferred: conn.Close(context.Background())
CloseDatabase ==
    /\ prog.exit = "running"
    /\ prog.main = "deferred"
    /\ prog' = [prog EXCEPT !.main = "closed", !.dbClosed = TRUE]
    /\ UNCHANGED <<j, now, ticks, uuids, salts, users, resp, issued, vres, calls, pw, reqs, conn>>

\* main returns and the process exits with status 0
MainReturns ==
    /\ prog.exit = "running"
    /\ prog.main = "closed"
    /\ prog' = [prog EXCEPT !.exit = "returned"]
    /\ UNCHANGED <<j, now, ticks, uuids, salts, users, resp, issued, vres, calls, pw, reqs, conn>>

\* the main goroutine and the serving goroutine, scheduled in any order
NextMain ==
    \/ ListenAndServe
    \/ ListenFails
    \/ ServeClosed
    \/ Fatalf
    \/ AcceptRequest
    \/ FinishRequest
    \/ Notify
    \/ ReceiveQuit
    \/ Shutdown
    \/ ShutdownWait
    \/ ShutdownReturns
    \/ PrintStopped
    \/ CloseDatabase
    \/ MainReturns

SpecMain == Init /\ [][NextMain]_vars

\* ------------------------------------------------------------------ claims
\* the token strings of the last pair issued
IssuedAccess == issued.pair[1].AccessToken

IssuedRefresh == issued.pair[1].RefreshToken

HasIssued == Len(issued.pair) = 1

\* the time t lies in the validity window of token tok
InWindow(tok, t) == Seconds(tok.nbf) <= t /\ t < Seconds(tok.exp)

\* C1: for a stored user whose password was persisted by register from
\* plaintext p, login(email, p) returns a token pair and no error, and the
\* pair's ExpiresIn is the configured access lifetime in whole seconds
C1_LoginWithRegisteredPassword ==
    (/\ resp.op = "Login"
     /\ IsNil(resp.dbErr)
     /\ \E r \in users : r.Email = resp.email /\ PlaintextOf(r.Password) = resp.password)
    => (/\ resp.code = "OK"
        /\ Len(resp.pair) = 1
        /\ resp.pair[1].ExpiresIn = j.accessExpiresIn \div TicksPerSecond)

\* C2: login with an email of the store and a plaintext that does not match
\* the stored hash is answered Unauthenticated, never with a token pair
C2_LoginWrongPassword ==
    (/\ resp.op = "Login"
     /\ IsNil(resp.dbErr)
     /\ \E r \in users : r.Email = resp.email /\ PlaintextOf(r.Password) # resp.password)
    => (resp.code = "Unauthenticated" /\ resp.pair = <<>>)

\* C3: login with an email no stored user has is answered NotFound, the
\* repository's not-found error propagated unchanged, and yields no token pair
C3_LoginUnknownEmail ==
    (/\ resp.op = "Login"
     /\ resp.dbErr.msg = "no rows in result set"
     /\ ~(\E r \in users : r.Email = resp.email))
    => (resp.code = "NotFound" /\ resp.pair = <<>>)

\* C4: when the store rejects the insert of register because of the unique
\* constraint on email, the answer is AlreadyExists (not Internal)
C4_DuplicateEmailAlreadyExists ==
    (/\ resp.op = "Register"
     /\ resp.dbErr.kind = "pg"
     /\ resp.dbErr.code = "23505")
    => resp.code = "AlreadyExists"

\* a register for an email of the store that reached the insert and was
\* rejected by the unique constraint
C4_Witness ==
    /\ resp.op = "Register"
    /\ resp.dbErr = PgError("23505")
    /\ \E r \in users : r.Email = resp.email
    /\ resp.user = <<>>

\* C5: ValidateToken on the access token of an issued pair, with the access
\* secret and inside the token's validity window, succeeds and returns the
\* id of the user the pair was issued for
C5_TokenRoundTrip ==
    (/\ vres.called
     /\ HasIssued
     /\ vres.tok = IssuedAccess
     /\ vres.secret = j.accessSecret
     /\ InWindow(vres.tok, vres.t))
    => (/\ IsNil(vres.err)
        /\ Len(vres.claims) = 1
        /\ vres.claims[1].UserID = issued.user)

\* an access token validated some time after it was issued
C5_Witness ==
    /\ vres.called
    /\ HasIssued
    /\ vres.tok = IssuedAccess
    /\ vres.secret = j.accessSecret
    /\ vres.t > issued.createTime
    /\ Len(vres.claims) = 1
    /\ vres.claims[1].UserID = issued.user
    /\ issued.user = 2

\* a token of an issued pair is checked against the secret of the other kind
CrossChecked ==
    /\ vres.called
    /\ HasIssued
    /\ \/ vres.tok = IssuedAccess /\ vres.secret = j.refreshSecret
       \/ vres.tok = IssuedRefresh /\ vres.secret = j.accessSecret

\* C6 as stated: for every pair issued by a service built with NewJWTService,
\* the access token fails against the refresh secret and the refresh token
\* fails against the access secret
C6_CrossSecretRejected_Original ==
    CrossChecked => (~IsNil(vres.err) /\ vres.claims = <<>>)

\* C6 as amended: the same, for a service whose access and refresh secrets
\* are different HMAC keys
C6_CrossSecretRejected ==
    (CrossChecked /\ HmacKey(j.accessSecret) # HmacKey(j.refreshSecret))
    => (~IsNil(vres.err) /\ vres.claims = <<>>)

\* a refresh token inside its validity window, checked against a different
\* access secret and rejected
C6_Witness ==
    /\ CrossChecked
    /\ HmacKey(j.accessSecret) # HmacKey(j.refreshSecret)
    /\ vres.tok = IssuedRefresh
    /\ InWindow(vres.tok, vres.t)
    /\ ~IsNil(vres.err)

\* C7: ValidateToken returns claims only between the token's not-before
\* instant and its expiry; past the expiry it returns an error and no claims,
\* whatever the signature, and it never accepts a token before its not-before
C7_TemporalValidity ==
    vres.called =>
        /\ vres.claims # <<>> =>
              (Seconds(vres.tok.nbf) <= vres.t /\ vres.t <= Seconds(vres.tok.exp))
        /\ vres.t > Seconds(vres.tok.exp) => (~IsNil(vres.err) /\ vres.claims = <<>>)
        /\ vres.t < Seconds(vres.tok.nbf) => (~IsNil(vres.err) /\ vres.claims = <<>>)

\* an issued token, correctly signed and checked with its own secret after
\* its expiry, is rejected
C7_Witness ==
    /\ vres.called
    /\ HasIssued
    /\ vres.tok = IssuedAccess
    /\ vres.secret = j.accessSecret
    /\ vres.t > Seconds(vres.tok.exp)
    /\ ~IsNil(vres.err)
    /\ vres.claims = <<>>

\* C8: every failed verification is classified InvalidArgument, whatever the
\* kind of failure, never Internal
C8_FailureIsInvalidArgument ==
    (vres.called /\ ~IsNil(vres.err)) => vres.code = "InvalidArgument"

\* C9: a token whose header declares an algorithm outside the HMAC family is
\* rejected before any signature check, and a signature is only ever checked
\* with the secret the caller supplied
C9_AlgorithmEnforced ==
    vres.called =>
        /\ (~vres.tok.malformed /\ vres.tok.alg \notin HmacAlgs) =>
              (~IsNil(vres.err) /\ vres.claims = <<>> /\ vres.sigKey = <<>>)
        /\ vres.sigKey # <<>> => vres.sigKey = <<vres.secret>>

\* a token that declares the algorithm none is rejected with no signature check
C9_Witness ==
    /\ vres.called
    /\ vres.tok.alg = "none"
    /\ ~vres.tok.malformed
    /\ ~IsNil(vres.err)
    /\ vres.sigKey = <<>>

\* C10: ValidateToken on a token of an issued pair returns claims whose
\* token_id is the fresh id generated when that token was signed, non-empty
C10_TokenIdReturned ==
    (/\ vres.called
     /\ HasIssued
     /\ \/ vres.tok = IssuedAccess /\ vres.secret = j.accessSecret
        \/ vres.tok = IssuedRefresh /\ vres.secret = j.refreshSecret
     /\ InWindow(vres.tok, vres.t))
    => (/\ Len(vres.claims) = 1
        /\ vres.claims[1].TokenID # 0
        /\ vres.claims[1].TokenID = vres.tok.jti)

\* the tokens the concurrent calls have returned, by goroutine and kind
Slots ==
    {g \in Goroutines : calls[g].pc = "done"} \X {"access", "refresh"}

SlotToken(s) ==
    IF s[2] = "access" THEN calls[s[1]].pair[1].AccessToken
    ELSE calls[s[1]].pair[1].RefreshToken

SlotSecret(s) == IF s[2] = "access" THEN j.accessSecret ELSE j.refreshSecret

\* the claims ValidateToken returns now for the token with its own secret
SlotClaims(s) == ValidateToken(SlotToken(s), SlotSecret(s), now)

\* C11: once every one of the concurrent GenerateToken calls for the same
\* user has returned, whatever the interleaving of their statements, each
\* token of each pair verifies with its own secret while it is in its
\* validity window, and the token identifier ValidateToken returns for it
\* differs from the one of every other token issued
C11_ConcurrentIssue ==
    (\A g \in Goroutines : calls[g].pc = "done")
    => (/\ \A s \in Slots :
              InWindow(SlotToken(s), now) => IsNil(SlotClaims(s).err)
        /\ \A s, t \in Slots :
              (s # t /\ IsNil(SlotClaims(s).err) /\ IsNil(SlotClaims(t).err))
              => SlotClaims(s).claims[1].TokenID # SlotClaims(t).claims[1].TokenID)

\* every password value of the rows is a bcrypt hash
AllHashed(rows) == \A r \in rows : IsBcrypt(r.Password)

\* the user entity a register returned does not carry the text it was sent
RegisterReturnsHash ==
    (resp.op = "Register" /\ Len(resp.user) = 1)
    => (IsBcrypt(resp.user[1].Password) /\ resp.user[1].Password # resp.password)

ValidText == IsNil(PasswordValidate(NewPassword(pw.text)))

\* C13: hashing a valid password succeeds, comparing the hash with the text
\* it was computed from succeeds, and comparing it with that text extended by
\* one character fails with an error classified Unauthenticated
C13_HashThenCompare ==
    /\ (pw.op = "Hash" /\ ValidText) => IsNil(pw.err)
    /\ (pw.op = "Compare" /\ ValidText /\ pw.stored = pw.hash)
       => (/\ pw.input = NewPassword(pw.text) => IsNil(pw.err)
           /\ pw.input = NewPassword(pw.text \o "x")
              => (pw.err.kind = "domain" /\ pw.code = "Unauthenticated"))

\* C14: Validate rejects every password of fewer than 8 characters with the
\* message "password must be at least 8 characters long" and accepts every
\* password of 8 characters or more
C14_ValidateByCharacters ==
    pw.op = "Validate"
    => IF RuneCount(NewPassword(pw.text)) < MinPasswordLen
       THEN pw.err = PlainErr("plain", "password must be at least 8 characters long")
       ELSE IsNil(pw.err)

\* the request of the last register fails the validation of the user entity
RegisterInvalid ==
    ~IsNil(UserValidate([ID |-> 0, Email |-> resp.email, Phone |-> resp.phone,
                         Password |-> resp.password]))

\* C15: a register whose request fails validation (email format, password
\* length, phone length) is answered with code InvalidArgument
C15_ValidationIsInvalidArgument ==
    (resp.op = "Register" /\ RegisterInvalid) => resp.code = "InvalidArgument"

\* C16: a login in which CompareHash returned an error, be it the mismatch of
\* password and hash or a failure of the comparison itself (a value that is
\* no well-formed hash), is answered with code Unauthenticated
C16_CompareFailureIsUnauthenticated ==
    (resp.op = "Login" /\ resp.collab.kind = "bcrypt")
    => resp.code = "Unauthenticated"

\* the classifications of the error policy, which are the connect codes
\* MapError can return
TransportCodes == {"NotFound", "AlreadyExists", "Unauthenticated", "InvalidArgument", "Internal"}

\* C17: the error a register or a login returns from the use case is the
\* error its collaborator returned, unchanged; MapError maps an error of
\* classification C to code C for each of the five classifications, and the
\* code of an error response is always one of the five
C17_ErrorsPassUnchanged ==
    /\ \A c \in TransportCodes : MapError(DomainErr(c, "m")) = c
    /\ resp.op \in {"Register", "Login"}
       => (/\ resp.err = resp.collab
           /\ IsNil(resp.err) => resp.code = "OK"
           /\ ~IsNil(resp.err) => resp.code \in TransportCodes
           /\ resp.err.kind = "domain" => resp.code = resp.err.code)

\* a register was refused by the repository as a duplicate, with a classified
\* error that reached the boundary as it was
C17_Witness ==
    /\ resp.op = "Register"
    /\ resp.collab.kind = "domain"
    /\ resp.collab.code = "AlreadyExists"
    /\ resp.err = resp.collab
    /\ resp.code = "AlreadyExists"

\* C18: a request whose handler panicked is answered by the recovery
\* interceptor with an error of code Internal
C18_PanicIsInternal ==
    resp.op \in NilProcedures => (~IsNil(resp.err) /\ resp.code = "Internal")

\* C19: when the signature of the access token or of the refresh token
\* fails, GenerateToken returns no pair and an error that MapError answers
\* with Internal; a pair that is returned has both tokens and no error
C19_NoPartialPair ==
    /\ issued.sign # "ok"
       => (/\ issued.pair = <<>>
           /\ ~IsNil(issued.err)
           /\ MapError(issued.err) = "Internal")
    /\ HasIssued
       => (/\ IsNil(issued.err)
           /\ ~IssuedAccess.malformed
           /\ ~IssuedRefresh.malformed)

\* the signature of the refresh token failed after the access token was
\* signed, and the call returned no pair
C19_Witness ==
    /\ issued.sign = "refresh"
    /\ issued.pair = <<>>
    /\ issued.err = SignError
    /\ issued.user \in UserIDs

\* C20: in a pair GenerateToken returned, the access token and the refresh
\* token carry the same issued-at and the same not-before, the second of the
\* one creation time of the pair, and each token expires that instant plus
\* its own configured lifetime
C20_PairSharesCreationTime ==
    HasIssued
    => (/\ IssuedAccess.iat = NewNumericDate(issued.createTime)
        /\ IssuedRefresh.iat = IssuedAccess.iat
        /\ IssuedAccess.nbf = NewNumericDate(issued.createTime)
        /\ IssuedRefresh.nbf = IssuedAccess.nbf
        /\ IssuedAccess.exp = IssuedAccess.nbf + AccessExpiresInSeconds
        /\ IssuedRefresh.exp = IssuedRefresh.nbf + RefreshExpiresInSeconds)

\* a pair was issued at a creation time that is not a whole second
C20_Witness ==
    /\ HasIssued
    /\ issued.createTime % TicksPerSecond # 0
    /\ IssuedAccess.exp # IssuedRefresh.exp

\* ------------------------------------------------------- claims C21 to C30
\* no two rows of the table have the same email
EmailsUnique == \A a, b \in users : a.Email = b.Email => a = b

\* the register requests for email e
Racers(e) == {r \in Requests : reqs[r].op = "Register" /\ reqs[r].email = e}

\* C21: whatever the interleaving of concurrent register requests, no two
\* stored users share an email, and once the requests have ended, of the
\* registrations for one email exactly one has succeeded and every other one
\* was answered AlreadyExists
C21_RacingRegisters ==
    /\ EmailsUnique
    /\ (\A r \in Requests : reqs[r].pc = "done")
       => \A e \in RaceEmails :
              Racers(e) # {}
              => \E w \in Racers(e) :
                     /\ reqs[w].code = "OK"
                     /\ \A o \in Racers(e) \ {w} : reqs[o].code = "AlreadyExists"

\* C22: two calls of Hash on the same text return different hashes, and
\* comparing that text with either of the two succeeds
C22_SaltedHashes ==
    /\ (pw.hash # <<>> /\ pw.prev # <<>>) => pw.hash # pw.prev
    /\ (/\ pw.op = "Compare"
        /\ pw.input = NewPassword(pw.text)
        /\ pw.stored \in {pw.hash, pw.prev})
       => IsNil(pw.err)

\* the text was hashed twice and compared with the first of the two hashes
C22_Witness ==
    /\ pw.op = "Compare"
    /\ pw.prev # <<>>
    /\ pw.hash # pw.prev
    /\ pw.stored = pw.prev
    /\ pw.input = NewPassword(pw.text)
    /\ IsNil(pw.err)

\* the stored password of the user the last request names
StoredPassword == (CHOOSE r \in users : r.Email = resp.email).Password

\* C23: a login calls GetUserByEmail, CompareHash and GenerateToken in this
\* order, each at most once; it stops at the first call that fails and
\* returns the error of that call, so GenerateToken runs only after the
\* lookup and the comparison returned no error
C23_LoginStepOrder ==
    resp.op = "Login"
    => (/\ resp.steps \in {<<"GetUserByEmail">>,
                           <<"GetUserByEmail", "CompareHash">>,
                           <<"GetUserByEmail", "CompareHash", "GenerateToken">>}
        /\ Len(resp.steps) = 1
           <=> ~IsNil(resp.dbErr)
        /\ Len(resp.steps) = 1
           => (resp.err.kind = "domain" /\ resp.pair = <<>>)
        /\ Len(resp.steps) = 2
           => (/\ ~IsNil(CompareHash(StoredPassword, resp.password))
               /\ resp.err = CompareHash(StoredPassword, resp.password)
               /\ resp.pair = <<>>)
        /\ Len(resp.steps) = 3
           => (/\ IsNil(resp.dbErr)
               /\ IsNil(CompareHash(StoredPassword, resp.password))
               /\ resp.err \in {NilErr, SignError}))

\* a login ran all three steps, and the token service returned a pair
C23_Witness ==
    /\ resp.op = "Login"
    /\ resp.steps = <<"GetUserByEmail", "CompareHash", "GenerateToken">>
    /\ IsNil(resp.err)
    /\ Len(resp.pair) = 1

C25_FirstFailureWins ==
    (resp.op = "Register" /\ RegisterInvalid)
    => resp.err = IF ~IsNil(EmailValidate(resp.email))
                  THEN EmailValidate(resp.email)
                  ELSE IF ~IsNil(PasswordValidate(resp.password))
                  THEN PasswordValidate(resp.password)
                  ELSE PhoneValidate(resp.phone)

\* a register whose email, password and phone are all invalid was answered
\* with the error of the email
C25_Witness ==
    /\ resp.op = "Register"
    /\ ~IsNil(EmailValidate(resp.email))
    /\ ~IsNil(PasswordValidate(resp.password))
    /\ ~IsNil(PhoneValidate(resp.phone))
    /\ resp.err = EmailValidate(resp.email)

\* C26: no step of the token service changes its secrets or lifetimes, and
\* the outcome of every ValidateToken call is fixed by the token string, the
\* secret passed and the time of the call: it succeeds exactly when the token
\* is an intact HMAC token whose signature verifies under that secret and
\* whose validity window contains that time, and then returns the token's
\* own claims, whatever was issued or validated before
C26_TokenServiceStateless ==
    [][/\ j' = j
       /\ vres'.called
          => (/\ IsNil(vres'.err)
                 <=> (/\ ~vres'.tok.malformed
                      /\ vres'.tok.alg \in HmacAlgs
                      /\ ~vres'.tok.tampered
                      /\ vres'.tok.key = HmacKey(vres'.secret)
                      /\ InWindow(vres'.tok, vres'.t))
              /\ vres'.claims = IF IsNil(vres'.err)
                                THEN << [UserID |-> vres'.tok.UserID,
                                         TokenID |-> vres'.tok.TokenID] >>
                                ELSE <<>>)]_vars

\* a token built outside the service was validated successfully by a service
\* that had issued nothing
C26_Witness ==
    /\ vres.called
    /\ IsNil(vres.err)
    /\ vres.tok \in ForgedTokens
    /\ issued = NoIssued

\* C27: the user a successful register returns, and the row stored for it,
\* carry the identifier NewUser generated for the entity
C27_EntityIdIsStoredId ==
    (resp.op = "Register" /\ IsNil(resp.err))
    => (/\ Len(resp.user) = 1
        /\ resp.user[1].ID = resp.newid
        /\ \E r \in users : r.Email = resp.email /\ r.ID = resp.newid)

\* C28: a login with the email and the plaintext a register stored a user
\* with, whose lookup and signatures did not fail, returns a pair, and the
\* user id in the claims of its access and of its refresh token is the id of
\* the row stored for that email
C28_RegisterThenLogin ==
    (/\ resp.op = "Login"
     /\ IsNil(resp.dbErr)
     /\ resp.err # SignError
     /\ \E r \in users : r.Email = resp.email /\ PlaintextOf(r.Password) = resp.password)
    => (/\ IsNil(resp.err)
        /\ Len(resp.pair) = 1
        /\ \A r \in users :
               r.Email = resp.email
               => (/\ resp.pair[1].AccessToken.UserID = r.ID
                   /\ resp.pair[1].RefreshToken.UserID = r.ID))

\* C29: once a signal has led main to call Shutdown on a server that did not
\* fail to listen, Shutdown waits at most 30 seconds and the process ends
\* only by main returning, after the message "Server gracefully stopped" and
\* the deferred close of the database connection: never by the serving
\* goroutine's log.Fatalf
C29_GracefulShutdown ==
    (prog.shutdownCalled /\ prog.serve # "failed")
    => (/\ prog.signal \in Signals
        /\ prog.elapsed <= ShutdownLimitSeconds
        /\ prog.exit # "fatal"
        /\ prog.exit = "returned" => (prog.printed /\ prog.dbClosed))

\* C30: under any interleaving of concurrent register and login requests
\* every query has the connection to itself: no two requests are between
\* lock and unlock at the same time, no statement ran while another request
\* used the connection, and no query was refused because the connection was
\* busy with another request
C30_ConnectionExclusive ==
    /\ Cardinality(conn.using) <= 1
    /\ \A r \in Requests :
           /\ ~reqs[r].overlapped
           /\ reqs[r].dbErr # PlainErr("pgx", "conn busy")

====
